---- MODULE Spec2Model ----
(***************************************************************************)
(* Resume-Ranking: the two request handlers of the repository.             *)
(*   rank.py    POST /score-resumes    (score_resumes, get_gpt_scores)     *)
(*   extract.py POST /extract-criteria (extract_criteria,                  *)
(*                                      extract_criteria_from_text)        *)
(* A request is one behaviour: Init is the request as received, the        *)
(* actions are the handler's steps (one loop iteration of score_resumes    *)
(* per action), and pc = "done" is the response sent.                      *)
(***************************************************************************)
EXTENDS Integers, Sequences, FiniteSets, TLC

VARIABLES
    req,                \* "score" | "extract": which endpoint received the request
    pc,                 \* "received" | "loop" | "done"
    response,           \* [status, detail, text]: the HTTP response (status 0: none yet)
    calls,              \* calls[u]: client.chat.completions.create calls made for unit u
    criteria,           \* score: the criteria form field
    nfiles,             \* score: len(files)
    flattened_criteria, \* score: list of (group, crit_key)
    csv_header,         \* score: the header row written to the csv writer
    rows,               \* score: the rows written to the csv writer, in write order
    idx,                \* score: position of the for loop in files (1-based)
    document,           \* score: <<what the bytes of the last iteration's file hold>> or <<>>
    resume_text,        \* score: <<the text extracted in the last iteration>> or <<>>
    completion,         \* score: <<the completion received for it>> or <<>>
    gpt_result,         \* score: <<the parsed completion>> or <<>>
    failed,             \* score: indexes of the files whose extraction or scoring failed
    skipped,            \* score: indexes of the files skipped as unsupported
    file,               \* extract: the uploaded job description
    job_text,           \* extract: <<the extracted text>> or <<>>
    criteria_text       \* extract: <<the completion text, stripped>> or <<>>

vars == <<req, pc, response, calls, criteria, nfiles, flattened_criteria,
          csv_header, rows, idx, document, resume_text, completion,
          gpt_result, failed, skipped, file, job_text, criteria_text>>

scoreVars == <<criteria, nfiles, flattened_criteria, csv_header, rows, idx,
               document, resume_text, completion, gpt_result, failed, skipped>>

extractVars == <<file, job_text, criteria_text>>

(***************************************************************************)
(* Bounds of the model.                                                    *)
(***************************************************************************)
MaxFiles == 2

MaxGroups == 2

MaxJobLen == 2

(***************************************************************************)
(* Numbers the source fixes.                                               *)
(***************************************************************************)
FencePrefixLen == 7

FenceSuffixLen == 3

MustMax == 10

GoodMax == 5

NiceMax == 2

(***************************************************************************)
(* Helpers.                                                                *)
(***************************************************************************)
Range(s) == {s[j] : j \in DOMAIN s}

IsDistinct(s) == \A p, q \in DOMAIN s : p # q => s[p] # s[q]

RECURSIVE SumOver(_, _)
SumOver(f, D) ==
    IF D = {} THEN 0
    ELSE LET d == CHOOSE e \in D : TRUE IN f[d] + SumOver(f, D \ {d})

RECURSIVE Concat(_)
Concat(ss) == IF ss = <<>> THEN <<>> ELSE Head(ss) \o Concat(Tail(ss))

NoResponse == [status |-> 0, detail |-> "", text |-> <<>>]

HTTPException(status_code, detail, text) ==
    [status |-> status_code, detail |-> detail, text |-> text]

(***************************************************************************)
(* rank.py: the criteria payload.                                          *)
(* A criteria dict is the sequence of its items in key order; a value is   *)
(* either a dict (isdict, keys in insertion order) or any other JSON value.*)
(***************************************************************************)
TierOrder == <<"Must have", "Good to have", "Nice to have">>

GroupNames == Range(TierOrder) \cup {"Other"}

CritNames == {"c1", "c2"}

GroupValues ==
    {[isdict |-> TRUE, keys |-> <<"c1">>],
     [isdict |-> TRUE, keys |-> <<"c2", "c1">>],
     [isdict |-> FALSE, keys |-> <<>>]}

CriteriaSets ==
    UNION {{d \in [1..n -> [group : GroupNames, value : GroupValues]] :
               IsDistinct([j \in 1..n |-> d[j].group])} : n \in 0..MaxGroups}

\* The form field: not JSON at all, JSON without a dict under "criteria",
\* or JSON with the criteria dict.
CriteriaPayloads ==
    {[kind |-> k, data |-> <<>>] : k \in {"bad_json", "no_criteria", "criteria_not_dict"}}
    \cup {[kind |-> "ok", data |-> d] : d \in CriteriaSets}

\* rank.py:157-163
CriteriaValid(payload) == payload.kind = "ok"

\* rank.py:166-173, the inner loop: the (group, crit_key) pairs of one item.
GroupColumns(item) ==
    IF item.value.isdict
    THEN [j \in 1..Len(item.value.keys) |-> <<item.group, item.value.keys[j]>>]
    ELSE <<>>

\* The flattening the three tiers alone would give, visited in TierOrder
\* whatever the key order: what FlattenCriteria is compared with.
FlattenFixedOrder(criteria_data) ==
    Concat([t \in DOMAIN TierOrder |->
              Concat([j \in DOMAIN criteria_data |->
                        IF criteria_data[j].group = TierOrder[t]
                        THEN GroupColumns(criteria_data[j]) ELSE <<>>])])

\* rank.py:166-173: for group, group_criteria in criteria_data.items()
FlattenCriteria(criteria_data) ==
    Concat([j \in 1..Len(criteria_data) |-> GroupColumns(criteria_data[j])])

\* rank.py:173
HeaderLabel(col) == col[1] \o ": " \o col[2]

\* rank.py:177
CsvHeader(flat) ==
    <<"Candidate Name">> \o [j \in 1..Len(flat) |-> HeaderLabel(flat[j])] \o <<"Total Score">>

(***************************************************************************)
(* Text.  A text is a sequence of units: single characters, and "J" / "T"  *)
(* standing for a whole well-formed / truncated JSON document (a slice or  *)
(* a strip that reaches into a document removes it); "bq" is a backquote.  *)
(***************************************************************************)
Whitespace == {" ", "\n"}

\* str.strip(): drop leading and trailing whitespace.
RECURSIVE LStrip(_)
LStrip(s) ==
    IF s # <<>> /\ Head(s) \in Whitespace THEN LStrip(Tail(s)) ELSE s

RECURSIVE RStrip(_)
RStrip(s) ==
    IF s # <<>> /\ s[Len(s)] \in Whitespace THEN RStrip(SubSeq(s, 1, Len(s) - 1)) ELSE s

Strip(s) == RStrip(LStrip(s))

\* s[a:-b] of Python, for a, b >= 0 (empty when the string is too short).
Slice(s, a, b) == SubSeq(s, a + 1, Len(s) - b)

(***************************************************************************)
(* rank.py: the files of the batch and their text.                         *)
(***************************************************************************)
FileExts == {"pdf", "docx", "txt"}

\* What PyPDF2 / python-docx make of the bytes: an exception, no text, text.
Docs == {"corrupt", "blank", "textual"}

UploadedFiles(k) ==
    {[filename |-> [stem |-> k, ext |-> e], doc |-> d] : e \in FileExts, d \in Docs}

\* A file as far as the handler looks at it: the bytes of a file it skips
\* are never read.
Files(k) == {f \in UploadedFiles(k) : f.filename.ext = "txt" => f.doc = "textual"}

\* rank.py:183  filename.rsplit(".", 1)[0]
CandidateName(filename) == filename.stem

\* rank.py:184-190
Supported(filename) == filename.ext \in {"pdf", "docx"}

\* An extraction that takes a document without text for an unreadable one:
\* what ExtractText is compared with.
ExtractTextRejectsBlank(f) ==
    [raised |-> f.doc \in {"corrupt", "blank"},
     text   |-> IF f.doc = "textual" THEN "resume text\n" ELSE "",
     error  |-> HTTPException(400, "Error processing PDF", <<>>)]

\* rank.py:20-44  extract_text_from_pdf / extract_text_from_docx
ExtractText(f) ==
    [raised |-> f.doc = "corrupt",
     text   |-> IF f.doc = "textual" THEN "resume text\n" ELSE "",
     error  |-> HTTPException(400, IF f.filename.ext = "pdf"
                                   THEN "Error processing PDF"
                                   ELSE "Error processing DOCX", <<>>)]

(***************************************************************************)
(* rank.py: the completion for one candidate.                              *)
(* A parsed completion is [isobject, scores, has_total, total_score]: a     *)
(* JSON object or some other JSON value; scores is absent, a non-dict JSON *)
(* value, or a dict from tier to a tier value; a tier value is a non-dict  *)
(* JSON value or a dict from criterion to score.                           *)
(***************************************************************************)
ScoreVals == {3, 11}

TierVals(K) ==
    {[isdict |-> FALSE, vals |-> <<>>]}
    \cup {[isdict |-> TRUE, vals |-> f] : f \in UNION {[D -> ScoreVals] : D \in SUBSET K}}

DictGroups(criteria_data) ==
    {criteria_data[j].group : j \in {q \in DOMAIN criteria_data : criteria_data[q].value.isdict}}

KeysOf(criteria_data, g) ==
    UNION {Range(criteria_data[j].value.keys) :
              j \in {q \in DOMAIN criteria_data : criteria_data[q].group = g}}

ScoresObjects(criteria_data) ==
    {[kind |-> "absent", tiers |-> <<>>], [kind |-> "notdict", tiers |-> <<>>]}
    \cup {[kind |-> "dict", tiers |-> t] :
            t \in UNION {{f \in [T -> TierVals(CritNames)] :
                             \A g \in T : f[g] \in TierVals(KeysOf(criteria_data, g))} :
                         T \in SUBSET DictGroups(criteria_data)}}

TierSum(tv) == IF tv.isdict THEN SumOver(tv.vals, DOMAIN tv.vals) ELSE 0

\* The sum of the leaf scores of a parsed completion.
LeafSum(scores) ==
    SumOver([g \in DOMAIN scores.tiers |-> TierSum(scores.tiers[g])], DOMAIN scores.tiers)

EmptyResult ==
    [isobject |-> TRUE, scores |-> [kind |-> "absent", tiers |-> <<>>],
     has_total |-> FALSE, total_score |-> 0]

\* A completion that parses to a JSON value that is no object (a list, a string).
NonObjectResult == [EmptyResult EXCEPT !.isobject = FALSE]

\* The parsed completions: every scores object with a total that is the sum
\* of its leaves or one more, the empty object {}, and a value that is no
\* object.
GptResults(criteria_data) ==
    {[isobject |-> TRUE, scores |-> s, has_total |-> TRUE,
      total_score |-> LeafSum(s) + d] :
        s \in ScoresObjects(criteria_data), d \in {0, 1}}
    \cup {EmptyResult, NonObjectResult}

FenceOpen == <<"bq", "bq", "bq", "j", "s", "o", "n">>

FenceClose == <<"bq", "bq", "bq">>

\* The completion texts: the document in a markdown json fence (the format the
\* handler expects), and the texts that differ from it by the fence or by
\* truncation.
Completions(criteria_data) ==
    {[text |-> FenceOpen \o <<"\n", "J", "\n">> \o FenceClose, result |-> r] :
        r \in GptResults(criteria_data)}
    \cup {[text |-> t, result |-> EmptyResult] :
            t \in {<<"J">>,
                   FenceClose \o <<"\n", "J", "\n">> \o FenceClose,
                   FenceOpen \o <<"\n", "T">>,
                   FenceOpen \o <<"\n", "T", "\n">> \o FenceClose}}

\* rank.py:126  completion.choices[0].message.content[7:-3]
Reply(content) == Slice(content.text, FencePrefixLen, FenceSuffixLen)

\* rank.py:128  json.loads(reply) succeeds
JsonLoadsOk(reply) == Strip(reply) = <<"J">>

\* A get_gpt_scores that calls once more when the call raised: what
\* GetGptScoresCalls is compared with.
GetGptScoresRetry(call_ok) == IF call_ok THEN 1 ELSE 2

\* rank.py:117-124: the create() calls one get_gpt_scores makes.
GetGptScoresCalls(call_ok) == 1

\* A lookup by subscript, gpt_result["scores"][group][crit_key], which raises
\* on a missing key: what LookupScore is compared with.
LookupScoreStrict(result, group, crit_key) ==
    LET s == result.scores IN
    IF ~result.isobject \/ s.kind # "dict" \/ group \notin DOMAIN s.tiers THEN [raised |-> TRUE, value |-> 0]
    ELSE IF ~s.tiers[group].isdict \/ crit_key \notin DOMAIN s.tiers[group].vals
         THEN [raised |-> TRUE, value |-> 0]
    ELSE [raised |-> FALSE, value |-> s.tiers[group].vals[crit_key]]

\* rank.py:198-199  gpt_result.get("scores", {}).get(group, {}).get(crit_key, 0)
LookupScore(result, group, crit_key) ==
    LET s == result.scores IN
    IF ~result.isobject \/ s.kind = "notdict" THEN [raised |-> TRUE, value |-> 0]
    ELSE IF s.kind = "absent" \/ group \notin DOMAIN s.tiers THEN [raised |-> FALSE, value |-> 0]
    ELSE IF ~s.tiers[group].isdict THEN [raised |-> TRUE, value |-> 0]
    ELSE IF crit_key \notin DOMAIN s.tiers[group].vals THEN [raised |-> FALSE, value |-> 0]
    ELSE [raised |-> FALSE, value |-> s.tiers[group].vals[crit_key]]

\* rank.py:201  gpt_result.get("total_score", 0)
LookupTotal(result) == IF result.has_total THEN result.total_score ELSE 0

\* rank.py:196-201
BuildRow(candidate_name, result, flat) ==
    [candidate_name |-> candidate_name,
     scores |-> [j \in 1..Len(flat) |-> LookupScore(result, flat[j][1], flat[j][2]).value],
     total  |-> LookupTotal(result)]

\* rank.py:197-201: a .get of the row construction raises (the one for the
\* total is made whatever the columns).
RowRaises(result, flat) ==
    \/ \E j \in 1..Len(flat) : LookupScore(result, flat[j][1], flat[j][2]).raised
    \/ ~result.isobject

\* A writer that puts the newest row first: what WriteRow is compared with.
WriteRowFirst(written, row) == <<row>> \o written

\* rank.py:202  writer.writerow(row)
WriteRow(written, row) == Append(written, row)

(***************************************************************************)
(* rank.py: score_resumes.                                                 *)
(***************************************************************************)
\* The criteria dicts of the batch requests: at most one group.
BatchPayloads == {c \in CriteriaPayloads : Len(c.data) <= 1}

NoFile == [content_type |-> "", ext |-> "", corrupt |-> FALSE, text |-> <<>>]

ScoreInit(payloads, filecounts) ==
    /\ req = "score"
    /\ pc = "received"
    /\ response = NoResponse
    /\ criteria \in payloads
    /\ nfiles \in filecounts
    /\ calls = [k \in 1..nfiles |-> 0]
    /\ flattened_criteria = <<>>
    /\ csv_header = <<>>
    /\ rows = <<>>
    /\ idx = 0
    /\ document = <<>>
    /\ resume_text = <<>>
    /\ completion = <<>>
    /\ gpt_result = <<>>
    /\ failed = {}
    /\ skipped = {}
    /\ file = NoFile
    /\ job_text = <<>>
    /\ criteria_text = <<>>

\* rank.py:157-163: the criteria field is rejected.
RejectCriteria ==
    /\ req = "score" /\ pc = "received"
    /\ ~CriteriaValid(criteria)
    /\ response' = HTTPException(400, "Invalid criteria format", <<>>)
    /\ pc' = "done"
    /\ UNCHANGED <<req, calls, scoreVars, extractVars>>

\* rank.py:165-178: the header is flattened and written.
WriteHeader ==
    /\ req = "score" /\ pc = "received"
    /\ CriteriaValid(criteria)
    /\ flattened_criteria' = FlattenCriteria(criteria.data)
    /\ csv_header' = CsvHeader(flattened_criteria')
    /\ idx' = 1
    /\ pc' = "loop"
    /\ UNCHANGED <<req, response, calls, criteria, nfiles, rows,
                   document, resume_text, completion, gpt_result, failed, skipped, extractVars>>

InLoop == req = "score" /\ pc = "loop" /\ idx <= nfiles

\* What an iteration that raises leaves behind: the exception is the response.
Abort(error) ==
    /\ response' = error
    /\ pc' = "done"
    /\ failed' = failed \cup {idx}
    /\ UNCHANGED <<req, criteria, nfiles, flattened_criteria, csv_header, rows, idx,
                   skipped, extractVars>>

\* rank.py:188-190: a file that is neither .pdf nor .docx is skipped.
SkipUnsupported ==
    /\ InLoop
    /\ \E f \in Files(idx) :
        /\ ~Supported(f.filename)
        /\ document' = <<f.doc>>
    /\ resume_text' = <<>>
    /\ completion' = <<>>
    /\ gpt_result' = <<>>
    /\ skipped' = skipped \cup {idx}
    /\ idx' = idx + 1
    /\ UNCHANGED <<req, pc, response, calls, criteria, nfiles, flattened_criteria,
                   csv_header, rows, failed, extractVars>>

\* rank.py:185-187, 29-30, 40-41: the text extraction raises.
ExtractTextFails ==
    /\ InLoop
    /\ \E f \in Files(idx) :
        /\ Supported(f.filename)
        /\ ExtractText(f).raised
        /\ document' = <<f.doc>>
        /\ Abort(ExtractText(f).error)
    /\ resume_text' = <<>>
    /\ completion' = <<>>
    /\ gpt_result' = <<>>
    /\ UNCHANGED calls

\* rank.py:193, 117-124: the completion call raises.
GptCallFails ==
    /\ InLoop
    /\ \E f \in Files(idx) :
        /\ Supported(f.filename)
        /\ ~ExtractText(f).raised
        /\ document' = <<f.doc>>
        /\ resume_text' = <<ExtractText(f).text>>
    /\ calls' = [calls EXCEPT ![idx] = @ + GetGptScoresCalls(FALSE)]
    /\ completion' = <<>>
    /\ gpt_result' = <<>>
    /\ Abort(HTTPException(500, "Error calling GPT API", <<>>))

\* rank.py:193, 126-130: the reply is not JSON.
GptParseFails ==
    /\ InLoop
    /\ \E f \in Files(idx) :
        /\ Supported(f.filename)
        /\ ~ExtractText(f).raised
        /\ document' = <<f.doc>>
        /\ resume_text' = <<ExtractText(f).text>>
    /\ \E c \in Completions(criteria.data) :
        /\ ~JsonLoadsOk(Reply(c))
        /\ completion' = <<c>>
        /\ Abort(HTTPException(500, "Error parsing GPT response", Reply(c)))
    /\ calls' = [calls EXCEPT ![idx] = @ + GetGptScoresCalls(TRUE)]
    /\ gpt_result' = <<>>

\* rank.py:195-200: a .get on a value that is no dict raises (AttributeError),
\* which no handler catches: the server answers 500.
RowBuildFails ==
    /\ InLoop
    /\ \E f \in Files(idx) :
        /\ Supported(f.filename)
        /\ ~ExtractText(f).raised
        /\ document' = <<f.doc>>
        /\ resume_text' = <<ExtractText(f).text>>
    /\ \E c \in Completions(criteria.data) :
        /\ JsonLoadsOk(Reply(c))
        /\ RowRaises(c.result, flattened_criteria)
        /\ completion' = <<c>>
        /\ gpt_result' = <<c.result>>
    /\ calls' = [calls EXCEPT ![idx] = @ + GetGptScoresCalls(TRUE)]
    /\ Abort(HTTPException(500, "Internal Server Error", <<>>))

\* rank.py:181-202: the iteration that writes the candidate's row.
RowWritten ==
    /\ InLoop
    /\ \E f \in Files(idx) :
        /\ Supported(f.filename)
        /\ ~ExtractText(f).raised
        /\ document' = <<f.doc>>
        /\ resume_text' = <<ExtractText(f).text>>
        /\ \E c \in Completions(criteria.data) :
            /\ JsonLoadsOk(Reply(c))
            /\ ~RowRaises(c.result, flattened_criteria)
            /\ completion' = <<c>>
            /\ gpt_result' = <<c.result>>
            /\ rows' = WriteRow(rows, BuildRow(CandidateName(f.filename), c.result,
                                               flattened_criteria))
    /\ calls' = [calls EXCEPT ![idx] = @ + GetGptScoresCalls(TRUE)]
    /\ idx' = idx + 1
    /\ UNCHANGED <<req, pc, response, criteria, nfiles, flattened_criteria, csv_header,
                   failed, skipped, extractVars>>

\* rank.py:204-207: the loop is over, the csv is the response (the locals of
\* the loop are gone with the return).
Respond ==
    /\ req = "score" /\ pc = "loop"
    /\ idx > nfiles
    /\ response' = [status |-> 200, detail |-> "text/csv", text |-> <<>>]
    /\ pc' = "done"
    /\ document' = <<>>
    /\ resume_text' = <<>>
    /\ completion' = <<>>
    /\ gpt_result' = <<>>
    /\ UNCHANGED <<req, calls, criteria, nfiles, flattened_criteria, csv_header, rows,
                   idx, failed, skipped, extractVars>>

Init == ScoreInit(BatchPayloads, 0..MaxFiles)

Next ==
    \/ RejectCriteria
    \/ WriteHeader
    \/ SkipUnsupported
    \/ ExtractTextFails
    \/ GptCallFails
    \/ GptParseFails
    \/ RowBuildFails
    \/ RowWritten
    \/ Respond

Spec == Init /\ [][Next]_vars

\* The header alone: every criteria payload, no file.
InitHeader == ScoreInit(CriteriaPayloads, {0})

NextHeader ==
    \/ RejectCriteria
    \/ WriteHeader
    \/ Respond

SpecHeader == InitHeader /\ [][NextHeader]_vars

(***************************************************************************)
(* extract.py: the completion text of the criteria extraction, as a        *)
(* sequence of tokens: { } : , and the literals                            *)
(*   dq  a double-quoted string      sq  a single-quoted string            *)
(*   dqTrue / dqtrue  a double-quoted string that holds True / true        *)
(*   num a number      true false  JSON's      True False  Python's        *)
(***************************************************************************)
JsonScalars == {"dq", "dqTrue", "dqtrue", "num", "true", "false"}

JsonKeys == {"dq", "dqTrue", "dqtrue"}

PyScalars == {"dq", "dqTrue", "dqtrue", "sq", "num", "True", "False"}

Scalars(lang) == IF lang = "json" THEN JsonScalars ELSE PyScalars

Keys(lang) == IF lang = "json" THEN JsonKeys ELSE PyScalars

\* The position after the value that starts at t[i], or 0 when there is none.
RECURSIVE ParseValue(_, _, _)
RECURSIVE ParseMembers(_, _, _)
ParseValue(t, i, lang) ==
    IF i > Len(t) THEN 0
    ELSE IF t[i] \in Scalars(lang) THEN i + 1
    ELSE IF t[i] = "{"
         THEN IF i + 1 <= Len(t) /\ t[i + 1] = "}" THEN i + 2
              ELSE ParseMembers(t, i + 1, lang)
    ELSE 0

\* key : value, then a comma and more members or the closing brace (Python
\* takes a comma right before the brace, JSON does not).
ParseMembers(t, i, lang) ==
    IF i + 1 > Len(t) THEN 0
    ELSE IF t[i] \notin Keys(lang) \/ t[i + 1] # ":" THEN 0
    ELSE LET j == ParseValue(t, i + 2, lang) IN
         IF j = 0 \/ j > Len(t) THEN 0
         ELSE IF t[j] = "}" THEN j + 1
         ELSE IF t[j] = ","
              THEN IF lang = "python" /\ j + 1 <= Len(t) /\ t[j + 1] = "}" THEN j + 2
                   ELSE ParseMembers(t, j + 1, lang)
         ELSE 0

\* The whole text is one value.
Accepts(t, lang) == ParseValue(t, 1, lang) = Len(t) + 1

\* The value a literal denotes: both spellings of a boolean are the boolean,
\* both quotings of a string are the string.
TokenValue(tok) ==
    CASE tok \in {"true", "True"} -> "bool:true"
      [] tok \in {"false", "False"} -> "bool:false"
      [] tok = "sq" -> "dq"
      [] OTHER -> tok

ParsedValue(t) == [j \in DOMAIN t |-> TokenValue(t[j])]

\* extract.py:98  json.loads
JsonLoads(t) ==
    [ok |-> Accepts(t, "json"), value |-> IF Accepts(t, "json") THEN ParsedValue(t) ELSE <<>>]

\* extract.py:103  ast.literal_eval
LiteralEval(t) ==
    [ok |-> Accepts(t, "python"), value |-> IF Accepts(t, "python") THEN ParsedValue(t) ELSE <<>>]

\* extract.py:95  .replace("True", "true").replace("False", "false"): every
\* occurrence, those inside a string too.
NormalizeToken(tok) ==
    CASE tok = "True" -> "true"
      [] tok = "False" -> "false"
      [] tok = "dqTrue" -> "dqtrue"
      [] OTHER -> tok

Normalize(t) == [j \in DOMAIN t |-> NormalizeToken(t[j])]

\* extract.py:92-106: what the function makes of the completion text.
ParseCriteria(content) ==
    LET criteria_txt == Strip(content)
        normalized_text == Normalize(criteria_txt)
    IN  IF JsonLoads(normalized_text).ok
        THEN [raised |-> FALSE, parsed |-> JsonLoads(normalized_text).value,
              error |-> NoResponse]
        ELSE IF LiteralEval(criteria_txt).ok
        THEN [raised |-> FALSE, parsed |-> LiteralEval(criteria_txt).value,
              error |-> NoResponse]
        ELSE [raised |-> TRUE, parsed |-> <<>>,
              error |-> HTTPException(500, "Error processing text with OpenAI", <<>>)]

\* extract.py:85-91: the create() calls one extract_criteria_from_text makes.
ExtractCriteriaCalls(call_ok) == 1

\* Complete completions: a tier holding one criterion, and a flat object
\* with Python's trailing comma.
Templates ==
    {<<"{", "dq", ":", "{", k, ":", v, "}", "}">> :
        k \in {"dq", "sq"}, v \in {"dq", "num", "true", "True", "dqTrue"}}
    \cup {<<"{", "dq", ":", "num", ",", "}">>}

\* The completions: the templates, their truncations, and the templates
\* wrapped in whitespace.
CompletionTexts ==
    UNION {{SubSeq(t, 1, n) : n \in 0..Len(t)} : t \in Templates}
    \cup {<<"\n">> \o t \o <<" ">> : t \in Templates}

(***************************************************************************)
(* extract.py: extract_criteria.                                           *)
(***************************************************************************)
AllowedTypes ==
    {"application/pdf",
     "application/vnd.openxmlformats-officedocument.wordprocessingml.document"}

ContentTypes == AllowedTypes \cup {"text/plain"}

JobChars == {" ", "\n", "a"}

JobTexts == UNION {[1..n -> JobChars] : n \in 0..MaxJobLen}

JobFiles ==
    {[content_type |-> ct, ext |-> e, corrupt |-> TRUE, text |-> <<>>] :
        ct \in ContentTypes, e \in FileExts}
    \cup {[content_type |-> ct, ext |-> e, corrupt |-> FALSE, text |-> t] :
            ct \in ContentTypes, e \in FileExts, t \in JobTexts}

\* extract.py:122-134: reading the file and extracting its text raises (the
\* unsupported extension's 400 is raised inside the try and leaves as a 500).
ReadRaises(f) == f.ext \notin {"pdf", "docx"} \/ f.corrupt

\* The test without the strip, not job_text: what IsBlank is compared with.
IsBlankUnstripped(text) == text = <<>>

\* extract.py:136  not job_text.strip()
IsBlank(text) == Strip(text) = <<>>

ExtractInit ==
    /\ req = "extract"
    /\ pc = "received"
    /\ response = NoResponse
    /\ file \in JobFiles
    /\ calls = <<0>>
    /\ job_text = <<>>
    /\ criteria_text = <<>>
    /\ criteria = [kind |-> "bad_json", data |-> <<>>]
    /\ nfiles = 0
    /\ flattened_criteria = <<>>
    /\ csv_header = <<>>
    /\ rows = <<>>
    /\ idx = 0
    /\ document = <<>>
    /\ resume_text = <<>>
    /\ completion = <<>>
    /\ gpt_result = <<>>
    /\ failed = {}
    /\ skipped = {}

Received == req = "extract" /\ pc = "received"

\* extract.py:119-120
RejectFileType ==
    /\ Received
    /\ file.content_type \notin AllowedTypes
    /\ response' = HTTPException(400, "Invalid file type", <<>>)
    /\ pc' = "done"
    /\ UNCHANGED <<req, calls, scoreVars, extractVars>>

\* extract.py:122-134
ReadFileFails ==
    /\ Received
    /\ file.content_type \in AllowedTypes
    /\ ReadRaises(file)
    /\ response' = HTTPException(500, "Error reading the file", <<>>)
    /\ pc' = "done"
    /\ UNCHANGED <<req, calls, scoreVars, extractVars>>

Readable == Received /\ file.content_type \in AllowedTypes /\ ~ReadRaises(file)

\* extract.py:136-137
RejectEmptyText ==
    /\ Readable
    /\ IsBlank(file.text)
    /\ job_text' = <<file.text>>
    /\ response' = HTTPException(400, "The uploaded file is empty", <<>>)
    /\ pc' = "done"
    /\ UNCHANGED <<req, calls, scoreVars, file, criteria_text>>

\* extract.py:139, 85-91, 105-106: the completion call raises.
CriteriaCallFails ==
    /\ Readable
    /\ ~IsBlank(file.text)
    /\ job_text' = <<file.text>>
    /\ calls' = [calls EXCEPT ![1] = @ + ExtractCriteriaCalls(FALSE)]
    /\ response' = HTTPException(500, "Error processing text with OpenAI", <<>>)
    /\ pc' = "done"
    /\ UNCHANGED <<req, scoreVars, file, criteria_text>>

\* extract.py:139-140, 92-104: the completion is parsed and returned.
CriteriaParsed ==
    /\ Readable
    /\ ~IsBlank(file.text)
    /\ job_text' = <<file.text>>
    /\ calls' = [calls EXCEPT ![1] = @ + ExtractCriteriaCalls(TRUE)]
    /\ \E content \in CompletionTexts :
        /\ ~ParseCriteria(content).raised
        /\ criteria_text' = <<Strip(content)>>
        /\ response' = [status |-> 200, detail |-> "criteria",
                        text |-> ParseCriteria(content).parsed]
    /\ pc' = "done"
    /\ UNCHANGED <<req, scoreVars, file>>

\* extract.py:139, 100-106: neither parse takes the completion.
CriteriaParseFails ==
    /\ Readable
    /\ ~IsBlank(file.text)
    /\ job_text' = <<file.text>>
    /\ calls' = [calls EXCEPT ![1] = @ + ExtractCriteriaCalls(TRUE)]
    /\ \E content \in CompletionTexts :
        /\ ParseCriteria(content).raised
        /\ criteria_text' = <<Strip(content)>>
        /\ response' = ParseCriteria(content).error
    /\ pc' = "done"
    /\ UNCHANGED <<req, scoreVars, file>>

NextExtract ==
    \/ RejectFileType
    \/ ReadFileFails
    \/ RejectEmptyText
    \/ CriteriaCallFails
    \/ CriteriaParsed
    \/ CriteriaParseFails

SpecExtract == ExtractInit /\ [][NextExtract]_vars

\* Both endpoints: a request is one or the other.
InitAll == Init \/ ExtractInit

NextAll == Next \/ NextExtract

SpecAll == InitAll /\ [][NextAll]_vars

(***************************************************************************)
(* The properties.                                                         *)
(***************************************************************************)
LastRow == rows[Len(rows)]

\* The iteration before this state wrote a row.
RowJustWritten == req = "score" /\ pc = "loop" /\ gpt_result # <<>>

\* The file of the last iteration: the loop has moved on unless it raised.
CurrentFile == IF pc = "loop" THEN idx - 1 ELSE idx

\* The parsed completion r has no score for the column: no scores object,
\* no such tier in it, or no such criterion in the tier.
Lacks(r, col) ==
    \/ r.scores.kind = "absent"
    \/ /\ r.scores.kind = "dict"
       /\ \/ col[1] \notin DOMAIN r.scores.tiers
          \/ /\ r.scores.tiers[col[1]].isdict
             /\ col[2] \notin DOMAIN r.scores.tiers[col[1]].vals

\* Every value of r that should be a dict is one.
WellTyped(r) ==
    /\ r.isobject
    /\ r.scores.kind # "notdict"
    /\ \A g \in DOMAIN r.scores.tiers : r.scores.tiers[g].isdict

\* rank.py:92-97: the range the prompt gives each tier (-1: none).
TierMax(group) ==
    CASE group = "Must have" -> MustMax
      [] group = "Good to have" -> GoodMax
      [] group = "Nice to have" -> NiceMax
      [] OTHER -> -1

RECURSIVE SeqSum(_)
SeqSum(q) == IF q = <<>> THEN 0 ELSE Head(q) + SeqSum(Tail(q))

\* C1: a failure that concerns one resume (extraction, completion call,
\* parse) does not abort the request: the response is the table, with a row
\* for every file that neither failed nor was skipped as unsupported.
C1_FailureIsolated ==
    (req = "score" /\ pc = "done" /\ CriteriaValid(criteria)) =>
        /\ response.status = 200
        /\ {rows[j].candidate_name : j \in DOMAIN rows} = (1..nfiles) \ (failed \cup skipped)

\* C2: the rows are in the order the files were submitted: of two rows, the
\* earlier one belongs to the file submitted earlier.
C2_RowOrder ==
    \A p, q \in DOMAIN rows : p < q => rows[p].candidate_name < rows[q].candidate_name

C2_Witness ==
    /\ req = "score" /\ pc = "done" /\ response.status = 200
    /\ Len(rows) = 2
    /\ rows[1].candidate_name = 1 /\ rows[2].candidate_name = 2

\* C3: a score the parsed completion omits (no scores object, no such tier,
\* no such criterion) is 0 in the row, and the row is written: the omission
\* raises nothing and the request goes on.
C3_MissingScoreIsZero ==
    (req = "score" /\ gpt_result # <<>> /\ WellTyped(gpt_result[1])) =>
        /\ pc = "loop"
        /\ response = NoResponse
        /\ CurrentFile \notin failed
        /\ Len(rows) > 0
        /\ LastRow.candidate_name = CurrentFile
        /\ Len(LastRow.scores) = Len(flattened_criteria)
        /\ \A j \in DOMAIN flattened_criteria :
              Lacks(gpt_result[1], flattened_criteria[j]) => LastRow.scores[j] = 0

C3_Witness ==
    /\ RowJustWritten
    /\ \E j, k \in DOMAIN flattened_criteria :
          /\ Lacks(gpt_result[1], flattened_criteria[j])
          /\ ~Lacks(gpt_result[1], flattened_criteria[k])
          /\ LastRow.scores[j] = 0
          /\ LastRow.scores[k] # 0

\* The columns before those of item j of the criteria dict.
RECURSIVE ColumnsBefore(_, _)
ColumnsBefore(d, j) ==
    IF j <= 1 THEN 0
    ELSE ColumnsBefore(d, j - 1)
         + (IF d[j - 1].value.isdict THEN Len(d[j - 1].value.keys) ELSE 0)

C5_ScoresWithinTierBounds ==
    \A p \in DOMAIN rows : \A j \in DOMAIN flattened_criteria :
        TierMax(flattened_criteria[j][1]) >= 0 =>
            /\ rows[p].scores[j] >= 0
            /\ rows[p].scores[j] <= TierMax(flattened_criteria[j][1])

\* C6: in every row the total is the sum of the row's criterion scores.
C6_TotalIsSumOfScores ==
    \A p \in DOMAIN rows : rows[p].total = SeqSum(rows[p].scores)

Malformed(t) == ~Accepts(Normalize(t), "json") /\ ~Accepts(t, "python")

\* C8: a completion that is not a well-formed structured object makes the
\* operation fail with its parse error, the error carrying the text that was
\* to be parsed, and no structure is returned.
C8_ParseErrorCarriesText ==
    /\ (req = "extract" /\ criteria_text # <<>> /\ Malformed(criteria_text[1])) =>
          /\ response.status = 500
          /\ response.text = criteria_text[1]
    /\ (req = "score" /\ completion # <<>> /\ ~JsonLoadsOk(Reply(completion[1]))) =>
          /\ response.status = 500
          /\ response.text = Reply(completion[1])
          /\ gpt_result = <<>>

\* C9: a job description whose text is empty after trimming whitespace is
\* answered with the empty-input error: no completion call is made and no
\* criteria are returned.
C9_BlankJobTextRejected ==
    (req = "extract" /\ job_text # <<>>
       /\ \A j \in DOMAIN job_text[1] : job_text[1][j] \in Whitespace) =>
        /\ pc = "done"
        /\ response.status = 400
        /\ response.detail = "The uploaded file is empty"
        /\ calls[1] = 0
        /\ criteria_text = <<>>

C9_Witness ==
    /\ req = "extract" /\ pc = "done"
    /\ job_text = << <<" ", "\n">> >>
    /\ response.status = 400

\* C10: one unit of work (the extraction request, one candidate of a batch)
\* never gets more than one completion call; every extraction that reaches
\* the completion service and every candidate with a row got exactly one;
\* a call that raises ends the unit with status 500 after that one call.
C10_OneCallNoRetry ==
    /\ \A u \in DOMAIN calls : calls[u] <= 1
    /\ \A j \in DOMAIN rows : calls[rows[j].candidate_name] = 1
    /\ (req = "score" /\ response.detail = "Error calling GPT API") =>
          (pc = "done" /\ response.status = 500 /\ calls[idx] = 1)
    /\ (req = "extract" /\ pc = "done" /\ job_text # <<>> /\ response.status # 400) =>
          calls[1] = 1
    /\ (req = "extract" /\ response.detail = "Error processing text with OpenAI") =>
          (pc = "done" /\ response.status = 500 /\ calls[1] = 1)

C10_Witness ==
    /\ req = "score" /\ pc = "done"
    /\ response.detail = "Error calling GPT API"
    /\ Len(rows) = 1
    /\ idx = 2
    /\ calls = <<1, 1>>

====
